---- MODULE Spec2Model ----
(***************************************************************************)
(* The least-cost feed formulation solver of functions/src/lib/            *)
(* feed-solver.ts (solveLeastCostFeedFormulation) as a state machine: one  *)
(* call of the solver per behaviour, one step per phase of the function    *)
(* and one step per iteration of its refinement loop.                      *)
(*                                                                         *)
(* Numbers.  The source computes in IEEE doubles.  Here every quantity is  *)
(* an integer count of a fixed unit, and the only operation that rounds    *)
(* is a division (rounded to the nearest unit, as a double division rounds *)
(* to the nearest double):                                                 *)
(*   percentage        1/Scale of a percentage point                       *)
(*   nutrient value    1/10 of the source's unit (16 % protein is 160)     *)
(*   unitPrice         cents                                               *)
(*   blend value       nutrient value x percentage unit / 100, i.e. the    *)
(*                     sum of value_i * percentage_i, kept exact           *)
(*   amount            percentage unit x totalAmount / 100, kept exact     *)
(*   cost              unitPrice x amount, kept exact                      *)
(***************************************************************************)
EXTENDS Integers, Sequences, FiniteSets, TLC

\* Percentage units per percentage point.
Scale == 1000

\* One whole (100 %) in percentage units.
Hundred == 100 * Scale

\* The value of an optional number that is not given.
undefined == 0 - 1

Nutrients ==
    {"protein", "energy", "fiber", "fat", "calcium", "phosphorus", "dryMatter", "ash"}

\* The nutrients meetsNutritionalRequirements looks at.
CheckedNutrients == {"protein", "energy", "fiber", "fat", "calcium", "phosphorus"}

\* A NutritionalValues object with the given keys and nothing else.
NV(protein, energy, fiber) ==
    [k \in Nutrients |->
        CASE k = "protein" -> protein
          [] k = "energy" -> energy
          [] k = "fiber" -> fiber
          [] OTHER -> undefined]

NoNutrition == [k \in Nutrients |-> undefined]

Max(a, b) == IF a >= b THEN a ELSE b
Min(a, b) == IF a <= b THEN a ELSE b

\* a / b for a >= 0 and b > 0, rounded to the nearest unit.
RoundDiv(a, b) == (2 * a + b) \div (2 * b)

\* (percentage / total) * 100 in percentage units, total > 0.
Rescale(percentage, total) ==
    LET t == percentage * 100
        q == t \div total
        r == t % total
    IN  q * Scale + RoundDiv(r * Scale, total)

\* F(x), with x evaluated once and F applied to its value.
Bind(F(_), x) == CHOOSE y \in {F(v) : v \in {x}} : TRUE

RECURSIVE SumOver(_, _)
\* reduce((sum, x) => sum + f(x), 0) over a sequence of numbers.
SumOver(seq, n) == IF n = 0 THEN 0 ELSE SumOver(seq, n - 1) + seq[n]

Sum(seq) == Bind(LAMBDA s : SumOver(s, Len(s)), seq)

(***************************************************************************)
(* DEFAULT_NUTRITIONAL_REQUIREMENTS, in tenths.                            *)
(***************************************************************************)
Floors(protein, energy, fiber, calcium, phosphorus) ==
    [k \in Nutrients |->
        CASE k = "protein" -> protein
          [] k = "energy" -> energy
          [] k = "fiber" -> fiber
          [] k = "calcium" -> calcium
          [] k = "phosphorus" -> phosphorus
          [] OTHER -> undefined]

Species == {"Dairy Cattle", "Beef Cattle", "Calf", "Pig", "Chicken", "Sheep", "Goat"}

DEFAULT_NUTRITIONAL_REQUIREMENTS ==
    [a \in Species |->
        CASE a = "Dairy Cattle" -> Floors(160, 27, 180, 6, 4)
          [] a = "Beef Cattle" -> Floors(120, 26, 200, 5, 3)
          [] a = "Calf" -> Floors(200, 30, 150, 8, 6)
          [] a = "Pig" -> Floors(180, 32, 50, 7, 5)
          [] a = "Chicken" -> Floors(200, 31, 40, 9, 7)
          [] a = "Sheep" -> Floors(140, 25, 220, 5, 3)
          [] a = "Goat" -> Floors(150, 26, 200, 6, 4)]

(***************************************************************************)
(* calculateNutritionalComposition: for every key, the sum over the        *)
(* components that define it of value * percentage / 100 (here the exact   *)
(* sum of value * percentage); a key no component defines stays absent.    *)
(***************************************************************************)
RECURSIVE compositionOf(_, _, _)
\* nutrition.k after one more component: (nutrition.k || 0) + value * factor
\* when the component defines k, nutrition.k as it was otherwise.
accumulate(nutrition, c, k) ==
    IF c.nutritionalValues[k] # undefined
    THEN (IF nutrition = undefined THEN 0 ELSE nutrition)
            + c.nutritionalValues[k] * c.percentage
    ELSE nutrition

compositionOf(components, k, n) ==
    IF n = 0 THEN undefined
    ELSE Bind(LAMBDA rest : accumulate(rest, components[n], k),
              compositionOf(components, k, n - 1))

calculateNutritionalComposition(components) ==
    Bind(LAMBDA cs : [k \in Nutrients |-> compositionOf(cs, k, Len(cs))], components)

\* (composition.k || 0), in blend units.
orZero(v) == IF v = undefined THEN 0 ELSE v

\* A requirement or an ingredient value (tenths) in blend units.
AsBlend(v) == v * Hundred

(***************************************************************************)
(* meetsNutritionalRequirements: every given floor of the six checked      *)
(* nutrients is at most (composition.k || 0).                              *)
(***************************************************************************)
meetsNutritionalRequirements(composition, requirements) ==
    \A k \in CheckedNutrients :
        requirements[k] # undefined
            => ~(orZero(composition[k]) < AsBlend(requirements[k]))

(***************************************************************************)
(* The request.  An ingredient is [id, unitPrice, nutritionalValues,       *)
(* constraints]; constraints is [minPercentage, maxPercentage], either or  *)
(* both undefined (an ingredient without a constraints object behaves as   *)
(* one whose two bounds are undefined).  ingredientName is carried along   *)
(* with the id by the source and is left out.                              *)
(***************************************************************************)
Constraints(minPercentage, maxPercentage) ==
    [minPercentage |-> minPercentage, maxPercentage |-> maxPercentage]

NoConstraints == Constraints(undefined, undefined)

RECURSIVE insertByPrice(_, _, _)
\* The place of x in an ascending run: after every element whose price is
\* not higher (Array.prototype.sort is stable).
insertByPrice(sorted, x, n) ==
    IF n = 0 THEN << x >> \o sorted
    ELSE IF sorted[n].unitPrice - x.unitPrice <= 0
         THEN SubSeq(sorted, 1, n) \o << x >> \o SubSeq(sorted, n + 1, Len(sorted))
         ELSE insertByPrice(sorted, x, n - 1)

RECURSIVE sortPrefix(_, _)
sortPrefix(ingredients, n) ==
    IF n = 0 THEN << >>
    ELSE LET before == sortPrefix(ingredients, n - 1)
         IN  insertByPrice(before, ingredients[n], Len(before))

\* [...ingredients].sort((a, b) => a.unitPrice - b.unitPrice)
sortedIngredients(ingredients) == sortPrefix(ingredients, Len(ingredients))

\* The cap applied to the list as given, before the sort.
selectIngredients_CapBeforeSort(ingredients, maxIngredients) ==
    IF maxIngredients # undefined /\ maxIngredients # 0
    THEN sortedIngredients(SubSeq(ingredients, 1, Min(maxIngredients, Len(ingredients))))
    ELSE sortedIngredients(ingredients)

\* maxIngredients ? sortedIngredients.slice(0, maxIngredients) : sortedIngredients
selectIngredients(ingredients, maxIngredients) ==
    LET sorted == sortedIngredients(ingredients)
    IN  IF maxIngredients # undefined /\ maxIngredients # 0
        THEN SubSeq(sorted, 1, Min(maxIngredients, Len(sorted)))
        ELSE sorted

\* The defaults of the species with the fields of targetNutrition laid over
\* them: { ...DEFAULT_NUTRITIONAL_REQUIREMENTS[targetAnimal], ...targetNutrition }
resolveRequirements_OverDefaults(in) ==
    LET defaults == IF in.targetAnimal \in DOMAIN DEFAULT_NUTRITIONAL_REQUIREMENTS
                    THEN DEFAULT_NUTRITIONAL_REQUIREMENTS[in.targetAnimal]
                    ELSE NoNutrition
    IN  IF in.hasTargetNutrition
        THEN [k \in Nutrients |->
                IF in.targetNutrition[k] # undefined THEN in.targetNutrition[k]
                ELSE defaults[k]]
        ELSE defaults

\* targetNutrition || DEFAULT_NUTRITIONAL_REQUIREMENTS[targetAnimal] || {}
resolveRequirements(in) ==
    IF in.hasTargetNutrition THEN in.targetNutrition
    ELSE IF in.targetAnimal \in DOMAIN DEFAULT_NUTRITIONAL_REQUIREMENTS
         THEN DEFAULT_NUTRITIONAL_REQUIREMENTS[in.targetAnimal]
         ELSE NoNutrition

\* selectedIngredients.find((ing) => ing.id === s.id)
find(selected, id) ==
    LET first == CHOOSE i \in 1..Len(selected) :
                    /\ selected[i].id = id
                    /\ \A j \in 1..(i - 1) : selected[j].id # id
    IN  selected[first]

percentagesOf(sol) == [i \in 1..Len(sol) |-> sol[i].percentage]

\* solution.map(s => ({ ...s, percentage: (s.percentage / total) * 100 })) when
\* total > 0, the solution as it is otherwise.
rescaled(sol, total) ==
    IF total > 0
    THEN [i \in 1..Len(sol) |->
            [sol[i] EXCEPT !.percentage = Rescale(sol[i].percentage, total)]]
    ELSE sol

\* The array as it is, not divided by its total.
normalize_Skipped(sol) == sol

normalize(sol) ==
    Bind(LAMBDA s : Bind(LAMBDA total : rescaled(s, total), Sum(percentagesOf(s))),
         sol)

\* The clamp without its Math.min: only the lower bound is applied.
clamp_MinOnly(percentage, constraints) ==
    IF constraints.minPercentage # undefined
    THEN Max(percentage, constraints.minPercentage)
    ELSE percentage

\* The percentage after the two clamps of step 3: Math.max with minPercentage
\* first, then Math.min with maxPercentage.
clamp(percentage, constraints) ==
    LET lifted == IF constraints.minPercentage # undefined
                  THEN Max(percentage, constraints.minPercentage)
                  ELSE percentage
    IN  IF constraints.maxPercentage # undefined
        THEN Min(lifted, constraints.maxPercentage)
        ELSE lifted

\* 100 / selectedIngredients.length
initialPercentage(selected) == RoundDiv(Hundred, Len(selected))

\* Equal shares, then the constraints of each ingredient applied.
clampedSolution(selected) ==
    [i \in 1..Len(selected) |->
        [id |-> selected[i].id,
         percentage |-> clamp(initialPercentage(selected), selected[i].constraints)]]

\* The solution the loop starts from.
initialSolution(selected) == normalize(clampedSolution(selected))

\* solution.map(s => ({ percentage, nutritionalValues of the ingredient found }))
componentsOf(sol, selected) ==
    [i \in 1..Len(sol) |->
        [percentage |-> sol[i].percentage,
         nutritionalValues |-> find(selected, sol[i].id).nutritionalValues]]

compositionOfSolution(sol, selected) ==
    calculateNutritionalComposition(componentsOf(sol, selected))

(***************************************************************************)
(* The requirements-satisfied branch of the loop body: the scan over the   *)
(* pairs i < j of pool positions for a cheaper ingredient j.  testSolution *)
(* is a copy of the array, not of its entries, so the two percentage       *)
(* updates land in the entries of solution as well and stay there when the *)
(* shift is rejected.                                                      *)
(***************************************************************************)
\* Math.min(5, solution[i].percentage * 0.1)
substitution(percentage) == Min(5 * Scale, RoundDiv(percentage, 10))

shifted(sol, i, j) ==
    LET amount == substitution(sol[i].percentage)
    IN  [sol EXCEPT ![i].percentage = @ - amount, ![j].percentage = @ + amount]

\* No entry of the test solution is below its minPercentage or above its
\* maxPercentage.
withinConstraints(sol, selected) ==
    \A k \in 1..Len(sol) :
        LET constraints == find(selected, sol[k].id).constraints
        IN  /\ ~(constraints.minPercentage # undefined
                    /\ sol[k].percentage < constraints.minPercentage)
            /\ ~(constraints.maxPercentage # undefined
                    /\ sol[k].percentage > constraints.maxPercentage)

RECURSIVE trySubstitutions_DearerFirst(_, _, _, _, _)
\* The scan with its price comparison turned round.
trySubstitutions_DearerFirst(sol, selected, requirements, i, j) ==
    IF i > Len(sol) THEN [solution |-> sol, improved |-> FALSE]
    ELSE IF j > Len(selected)
         THEN trySubstitutions_DearerFirst(sol, selected, requirements, i + 1, i + 2)
    ELSE IF selected[j].unitPrice > selected[i].unitPrice
         THEN LET test == shifted(sol, i, j)
              IN  IF /\ withinConstraints(test, selected)
                     /\ meetsNutritionalRequirements(
                            compositionOfSolution(test, selected), requirements)
                  THEN [solution |-> test, improved |-> TRUE]
                  ELSE trySubstitutions_DearerFirst(test, selected, requirements, i, j + 1)
    ELSE trySubstitutions_DearerFirst(sol, selected, requirements, i, j + 1)

RECURSIVE trySubstitutions(_, _, _, _, _)
trySubstitutions(sol, selected, requirements, i, j) ==
    IF i > Len(sol) THEN [solution |-> sol, improved |-> FALSE]
    ELSE IF j > Len(selected)
         THEN trySubstitutions(sol, selected, requirements, i + 1, i + 2)
    ELSE IF selected[j].unitPrice < selected[i].unitPrice
         THEN LET test == shifted(sol, i, j)
              IN  IF /\ withinConstraints(test, selected)
                     /\ meetsNutritionalRequirements(
                            compositionOfSolution(test, selected), requirements)
                  THEN [solution |-> test, improved |-> TRUE]
                  ELSE trySubstitutions(test, selected, requirements, i, j + 1)
    ELSE trySubstitutions(sol, selected, requirements, i, j + 1)

(***************************************************************************)
(* The requirements-unsatisfied branch: the adjustments list, in the order *)
(* the source pushes (ingredient by ingredient, protein before energy),    *)
(* then the bumps, the reduction of the others and the normalization.      *)
(***************************************************************************)
proteinBump == 2 * Scale
energyBump == (3 * Scale) \div 2

\* requirements.k && (composition.k || 0) < requirements.k
deficient(composition, requirements, k) ==
    /\ requirements[k] # undefined
    /\ requirements[k] # 0
    /\ orZero(composition[k]) < AsBlend(requirements[k])

\* The comparison with the blend written >=.
richerThanBlend_OrEqual(nutritionalValues, composition, k) ==
    /\ nutritionalValues[k] # undefined
    /\ nutritionalValues[k] # 0
    /\ AsBlend(nutritionalValues[k]) >= orZero(composition[k])

\* nutritionalValues.k && nutritionalValues.k > (composition.k || 0)
richerThanBlend(nutritionalValues, composition, k) ==
    /\ nutritionalValues[k] # undefined
    /\ nutritionalValues[k] # 0
    /\ AsBlend(nutritionalValues[k]) > orZero(composition[k])

adjustmentsAt(i, selected, composition, requirements) ==
    LET nutritionalValues == selected[i].nutritionalValues
        forProtein ==
            IF /\ deficient(composition, requirements, "protein")
               /\ richerThanBlend(nutritionalValues, composition, "protein")
            THEN << [ingredientIdx |-> i, adjustment |-> proteinBump] >>
            ELSE << >>
        forEnergy ==
            IF /\ deficient(composition, requirements, "energy")
               /\ richerThanBlend(nutritionalValues, composition, "energy")
            THEN << [ingredientIdx |-> i, adjustment |-> energyBump] >>
            ELSE << >>
    IN  forProtein \o forEnergy

RECURSIVE adjustmentsUpTo(_, _, _, _)
adjustmentsUpTo(n, selected, composition, requirements) ==
    IF n = 0 THEN << >>
    ELSE adjustmentsUpTo(n - 1, selected, composition, requirements)
            \o adjustmentsAt(n, selected, composition, requirements)

\* The adjustments array of one iteration (the loop runs over solution.length).
adjustmentsOf(sol, selected, composition, requirements) ==
    adjustmentsUpTo(Len(sol), selected, composition, requirements)

\* The sum of the adjustments pushed for position i.
bumpAt(adjustments, i) ==
    Sum([a \in 1..Len(adjustments) |->
            IF adjustments[a].ingredientIdx = i THEN adjustments[a].adjustment ELSE 0])

isBumped(adjustments, i) ==
    \E a \in 1..Len(adjustments) : adjustments[a].ingredientIdx = i

\* The reduction without its Math.max(0, ...) where the divisor is positive.
reduced_Unfloored(percentage, totalAdjustment, divisor) ==
    IF divisor = 0 THEN 0
    ELSE IF divisor > 0
         THEN percentage - RoundDiv(totalAdjustment, divisor)
         ELSE Max(0, percentage + RoundDiv(totalAdjustment, 0 - divisor))

\* Math.max(0, percentage - totalAdjustment / divisor), where divisor is
\* solution.length - adjustments.length: a zero divisor makes the reduction
\* +Infinity (the result 0), a negative one makes it negative.
reduced(percentage, totalAdjustment, divisor) ==
    IF divisor = 0 THEN 0
    ELSE IF divisor > 0
         THEN Max(0, percentage - RoundDiv(totalAdjustment, divisor))
         ELSE Max(0, percentage + RoundDiv(totalAdjustment, 0 - divisor))

\* The solution after the bumps and the reductions, before normalization.
totalAdjustmentOf(adjustments) ==
    Sum([a \in 1..Len(adjustments) |-> adjustments[a].adjustment])

adjusted(sol, adjustments) ==
    [i \in 1..Len(sol) |->
        [sol[i] EXCEPT !.percentage =
            IF isBumped(adjustments, i)
            THEN @ + bumpAt(adjustments, i)
            ELSE reduced(@, totalAdjustmentOf(adjustments),
                         Len(sol) - Len(adjustments))]]

(***************************************************************************)
(* One pass of the while loop: the solution it leaves and whether it ends  *)
(* the loop with a break.                                                  *)
(***************************************************************************)
\* The branch without its if (!improved) break.
reduceCost_NoBreak(sol, selected, requirements) ==
    Bind(LAMBDA scan : [solution |-> scan.solution, break |-> FALSE],
         trySubstitutions(sol, selected, requirements, 1, 2))

\* The branch taken when the requirements are met.
reduceCost(sol, selected, requirements) ==
    Bind(LAMBDA scan : [solution |-> scan.solution, break |-> ~scan.improved],
         trySubstitutions(sol, selected, requirements, 1, 2))

\* The branch taken when they are not, given the adjustments array.
applyAdjustments(sol, adjustments) ==
    IF Len(adjustments) > 0
    THEN [solution |-> normalize(adjusted(sol, adjustments)), break |-> FALSE]
    ELSE [solution |-> sol, break |-> TRUE]

loopBodyAt(sol, selected, requirements, composition) ==
    IF meetsNutritionalRequirements(composition, requirements)
    THEN reduceCost(sol, selected, requirements)
    ELSE Bind(LAMBDA adjustments : applyAdjustments(sol, adjustments),
              adjustmentsOf(sol, selected, composition, requirements))

loopBody(sol, selected, requirements) ==
    Bind(LAMBDA composition : loopBodyAt(sol, selected, requirements, composition),
         compositionOfSolution(sol, selected))

(***************************************************************************)
(* Finalization: the composition of the whole solution, the components     *)
(* with a percentage above 0.01 with amount and cost from the percentage   *)
(* the loop left, the percentages of the kept components rescaled, the     *)
(* total cost.                                                             *)
(***************************************************************************)
\* 0.01 in percentage units.
nearZero == Scale \div 100

component(s, selected, totalAmount) ==
    LET amount == s.percentage * totalAmount
    IN  [ingredientId |-> s.id,
         percentage |-> s.percentage,
         amount |-> amount,
         cost |-> find(selected, s.id).unitPrice * amount]

\* The filter written as s.percentage > 0.
keptComponents_DropsOnlyZero(sol, selected, totalAmount) ==
    LET kept == SelectSeq(sol, LAMBDA s : s.percentage > 0)
    IN  [i \in 1..Len(kept) |-> component(kept[i], selected, totalAmount)]

keptComponents(sol, selected, totalAmount) ==
    LET kept == SelectSeq(sol, LAMBDA s : s.percentage > nearZero)
    IN  [i \in 1..Len(kept) |-> component(kept[i], selected, totalAmount)]

\* rationComponents after the second normalization.
rationComponents(sol, selected, totalAmount) ==
    Bind(LAMBDA kept : Bind(LAMBDA filteredTotal : rescaled(kept, filteredTotal),
                            Sum(percentagesOf(kept))),
         keptComponents(sol, selected, totalAmount))

totalCostOf(components) ==
    Sum([i \in 1..Len(components) |-> components[i].cost])

\* The total taken over the whole pool, dropped entries included.
rationOf_CostOfWholePool(in, sol, selected, components) ==
    [targetAnimal |-> in.targetAnimal,
     totalAmount |-> in.totalAmount,
     components |-> components,
     totalCost |->
        Sum([i \in 1..Len(sol) |->
                find(selected, sol[i].id).unitPrice * sol[i].percentage * in.totalAmount]),
     nutritionalValues |-> compositionOfSolution(sol, selected)]

rationOf(in, sol, selected, components) ==
    [targetAnimal |-> in.targetAnimal,
     totalAmount |-> in.totalAmount,
     components |-> components,
     totalCost |-> totalCostOf(components),
     nutritionalValues |-> compositionOfSolution(sol, selected)]

ration(in, sol, selected) ==
    Bind(LAMBDA components : rationOf(in, sol, selected, components),
         rationComponents(sol, selected, in.totalAmount))

(***************************************************************************)
(* The requests of the model: every ingredient list of up to               *)
(* MaxIngredientCount ingredients drawn from a few kinds (the id of an     *)
(* ingredient is its place in the list, so ids are unique within a call),  *)
(* a few requirement sets, maxIngredients absent, 1 or 2.                  *)
(***************************************************************************)
MaxIngredientCount == 3

Kind(unitPrice, nutritionalValues, constraints) ==
    [unitPrice |-> unitPrice,
     nutritionalValues |-> nutritionalValues,
     constraints |-> constraints]

\* Corn of the constraint test: 8 % protein, 3.5 energy, between 30 % and 70 %.
Corn == Kind(20, NV(80, 35, undefined), Constraints(30 * Scale, 70 * Scale))
\* Soybean meal: 44 % protein, 3.2 energy, no constraints.
SoybeanMeal == Kind(50, NV(440, 32, undefined), NoConstraints)
\* A fiber feed that meets the dairy protein and energy floors by itself.
Hay == Kind(30, NV(160, 27, 300), NoConstraints)
\* An ingredient that may not be used at all (maxPercentage 0).
Excluded == Kind(10, NV(undefined, undefined, 300), Constraints(undefined, 0))
\* A premix capped at 0.005 %, at the price of corn.
Premix == Kind(20, NV(200, 30, undefined), Constraints(undefined, 5))
\* A free by-product whose minPercentage (60) is above its maxPercentage (40).
ByProduct == Kind(0, NV(100, 30, undefined), Constraints(60 * Scale, 40 * Scale))

\* The same feed as Hay at more than three times its price.
ExpensiveHay == Kind(100, Hay.nutritionalValues, Hay.constraints)

Kinds == {Corn, SoybeanMeal, Hay, Excluded, Premix, ByProduct, ExpensiveHay}

IngredientLists ==
    UNION {[1..n -> Kinds] : n \in 0..MaxIngredientCount}

withIds(kinds) ==
    [i \in 1..Len(kinds) |->
        [id |-> i,
         unitPrice |-> kinds[i].unitPrice,
         nutritionalValues |-> kinds[i].nutritionalValues,
         constraints |-> kinds[i].constraints]]

\* targetNutrition absent (the species' defaults apply), empty, or given.
RequirementCases ==
    {[hasTargetNutrition |-> FALSE, targetNutrition |-> NoNutrition],
     [hasTargetNutrition |-> TRUE, targetNutrition |-> NoNutrition],
     [hasTargetNutrition |-> TRUE, targetNutrition |-> NV(160, undefined, undefined)],
     [hasTargetNutrition |-> TRUE, targetNutrition |-> NV(500, 40, undefined)],
     [hasTargetNutrition |-> TRUE, targetNutrition |-> NV(undefined, undefined, 180)],
     [hasTargetNutrition |-> TRUE, targetNutrition |-> NV(undefined, undefined, 0)]}

MaxIngredientsValues == {undefined, 1, 2}

TotalAmounts == {50, 100}

Requests ==
    {[targetAnimal |-> "Dairy Cattle",
      totalAmount |-> amount,
      ingredients |-> withIds(kinds),
      hasTargetNutrition |-> r.hasTargetNutrition,
      targetNutrition |-> r.targetNutrition,
      maxIngredients |-> m] :
        amount \in TotalAmounts, kinds \in IngredientLists,
        r \in RequirementCases, m \in MaxIngredientsValues}

NoRation ==
    [targetAnimal |-> "", totalAmount |-> 0, components |-> << >>,
     totalCost |-> 0, nutritionalValues |-> NoNutrition]

\* The readings the system clock can give to new Date().
MaxTime == 1

Times == 0..MaxTime

\* The calls one process makes one after the other.
MaxCalls == 3

\* The requests of a process that calls the solver again and again: no
\* ingredient, one, or corn and soybean meal, with targetNutrition absent,
\* empty or out of reach.
CallRequests ==
    {r \in Requests :
        /\ r.totalAmount = 100
        /\ r.maxIngredients = undefined
        /\ r.ingredients \in {withIds(<< >>), withIds(<< Hay >>),
                               withIds(<< Corn, SoybeanMeal >>)}
        /\ \/ ~r.hasTargetNutrition
           \/ r.targetNutrition = NoNutrition
           \/ r.targetNutrition["energy"] # undefined}

\* A targetAnimal outside the table: the type of the parameter names the seven
\* species, but nothing in solveLeastCostFeedFormulation checks the string.
UnlistedAnimal == "Llama"

TargetAnimals == Species \cup {UnlistedAnimal}

\* The requests that differ in targetAnimal: every species and the unlisted
\* one, each with every case of targetNutrition, over a few pools.
SpeciesRequests ==
    {[r EXCEPT !.targetAnimal = a] :
        r \in {q \in Requests :
                /\ q.totalAmount = 100
                /\ q.maxIngredients = undefined
                /\ q.ingredients \in {withIds(<< >>), withIds(<< Hay >>),
                                       withIds(<< Corn, SoybeanMeal >>),
                                       withIds(<< Hay, SoybeanMeal, Corn >>)}},
        a \in TargetAnimals}

(***************************************************************************)
(* The routers: the callers, the ingredients collection, the requests of   *)
(* optimizeFeed, the results of the RAG service.                           *)
(***************************************************************************)
Users == {"u1", "u2"}

\* No authenticated caller (ctx.userId absent).
NoUser == ""

\* The documents the ingredients collection can hold at a time.
MaxRecords == 2

RecordIds == 1..MaxRecords

\* The documents the feedRations collection can hold.
MaxRations == 1

\* An ingredient document: its owner and, of its data, the price.
Record(userId, unitPrice) == [exists |-> TRUE, userId |-> userId, unitPrice |-> unitPrice]

NoRecord == [exists |-> FALSE, userId |-> NoUser, unitPrice |-> undefined]

\* What the first ingredient of an optimizeFeed request can be: corn, or the
\* ingredient with maxPercentage 0.
FirstKinds == {Corn, Excluded}

\* The ingredients of an optimizeFeed request naming these ids: the first
\* kind, soybean meal after it.
requestIngredients(ids, first) ==
    [i \in 1..Len(ids) |->
        LET kind == IF i = 1 THEN first ELSE SoybeanMeal
        IN  [id |-> ids[i],
             unitPrice |-> kind.unitPrice,
             nutritionalValues |-> kind.nutritionalValues,
             constraints |-> kind.constraints]]

IdLists == UNION {[1..n -> RecordIds] : n \in 1..MaxRecords}

RouterRequests ==
    {[targetAnimal |-> "Dairy Cattle",
      totalAmount |-> 100,
      ingredients |-> requestIngredients(ids, first),
      hasTargetNutrition |-> has,
      targetNutrition |-> IF has THEN NV(500, 40, undefined) ELSE NoNutrition,
      maxIngredients |-> undefined] :
        ids \in IdLists, first \in FirstKinds, has \in BOOLEAN}

NoRequest ==
    [targetAnimal |-> "", totalAmount |-> 0, ingredients |-> << >>,
     hasTargetNutrition |-> FALSE, targetNutrition |-> NoNutrition,
     maxIngredients |-> undefined]

\* What queryGeminiMultimodal can hand to askRag: null, an exception, or a
\* RagResult { answer, sources?, confidence? }, the confidence in hundredths.
RagResult(answer, hasSources, confidence) ==
    [outcome |-> "result", answer |-> answer, hasSources |-> hasSources,
     confidence |-> confidence]

null == [outcome |-> "null", answer |-> "", hasSources |-> FALSE, confidence |-> undefined]

serviceError == [outcome |-> "thrown", answer |-> "", hasSources |-> FALSE, confidence |-> undefined]

RagOutcomes ==
    {null, serviceError}
        \cup {RagResult("Vaccinate the herd.", hasSources, confidence) :
                hasSources \in BOOLEAN, confidence \in {undefined, 0, 30, 49, 50, 80}}

\* What a procedure answered last, to whom, and what it was called with.
Response(procedure, userId, request, code, body) ==
    [procedure |-> procedure, userId |-> userId, request |-> request,
     code |-> code, body |-> body]

NoBody == << >>

NoResponse == Response("", NoUser, NoBody, "", NoBody)

(***************************************************************************)
(* The call.                                                               *)
(***************************************************************************)
VARIABLES
    input,                \* the request of the call
    pc,                   \* "start", "loop", "final", "returned" or "thrown"
    requirements,
    selectedIngredients,
    solution,
    iteration,
    result,               \* the returned ration, once pc = "returned"
    earlier,              \* the calls this process finished before this one
    ingredientRecords,    \* the ingredients collection, by document id
    feedRations,          \* the feedRations collection, in the order of writing
    caller,               \* the user whose optimizeFeed request runs the solver
    response              \* the last answer of a router procedure

\* What outlives a call.
outside == << earlier, ingredientRecords, feedRations, caller, response >>

vars == << input, pc, requirements, selectedIngredients, solution, iteration, result,
           outside >>

maxIterations == 100

Init ==
    /\ input \in Requests
    /\ pc = "start"
    /\ requirements = NoNutrition
    /\ selectedIngredients = << >>
    /\ solution = << >>
    /\ iteration = 0
    /\ result = NoRation
    /\ earlier = << >>
    /\ ingredientRecords = [id \in RecordIds |-> NoRecord]
    /\ feedRations = << >>
    /\ caller = NoUser
    /\ response = NoResponse

\* The validation written as ingredients.length <= 1.
Throw_BelowTwo ==
    /\ pc = "start"
    /\ Len(input.ingredients) <= 1
    /\ pc' = "thrown"
    /\ UNCHANGED << input, requirements, selectedIngredients, solution, iteration, result >>
    /\ UNCHANGED outside

\* ingredients.length === 0: throw new Error('At least one ingredient is required')
Throw ==
    /\ pc = "start"
    /\ Len(input.ingredients) = 0
    /\ pc' = "thrown"
    /\ UNCHANGED << input, requirements, selectedIngredients, solution, iteration, result >>
    /\ UNCHANGED outside

\* The function without its validation.
Start_NoValidation ==
    /\ pc = "start"
    /\ requirements' = resolveRequirements(input)
    /\ selectedIngredients' = selectIngredients(input.ingredients, input.maxIngredients)
    /\ solution' = initialSolution(selectedIngredients')
    /\ iteration' = 0
    /\ pc' = "loop"
    /\ UNCHANGED << input, result >>
    /\ UNCHANGED outside

\* ingredients.sort(...) without the copy: the request's own list is sorted.
Start_SortsInPlace ==
    /\ pc = "start"
    /\ ~(Len(input.ingredients) = 0)
    /\ requirements' = resolveRequirements(input)
    /\ input' = [input EXCEPT !.ingredients = sortedIngredients(@)]
    /\ selectedIngredients' = selectIngredients(input.ingredients, input.maxIngredients)
    /\ solution' = initialSolution(selectedIngredients')
    /\ iteration' = 0
    /\ pc' = "loop"
    /\ UNCHANGED << result >>
    /\ UNCHANGED outside

\* The requirements kept from the call before when it had any.
Start_KeepsRequirements ==
    /\ pc = "start"
    /\ ~(Len(input.ingredients) = 0)
    /\ requirements' = IF requirements # NoNutrition THEN requirements
                       ELSE resolveRequirements(input)
    /\ selectedIngredients' = selectIngredients(input.ingredients, input.maxIngredients)
    /\ solution' = initialSolution(selectedIngredients')
    /\ iteration' = 0
    /\ pc' = "loop"
    /\ UNCHANGED << input, result >>
    /\ UNCHANGED outside

\* Requirement resolution, candidate selection and the initial allocation.
Start ==
    /\ pc = "start"
    /\ ~(Len(input.ingredients) = 0)
    /\ requirements' = resolveRequirements(input)
    /\ selectedIngredients' = selectIngredients(input.ingredients, input.maxIngredients)
    /\ solution' = initialSolution(selectedIngredients')
    /\ iteration' = 0
    /\ pc' = "loop"
    /\ UNCHANGED << input, result >>
    /\ UNCHANGED outside

\* The loop without its iteration++.
Iterate_NoIncrement ==
    /\ pc = "loop"
    /\ iteration < maxIterations
    /\ \E pass \in {loopBody(solution, selectedIngredients, requirements)} :
            /\ solution' = pass.solution
            /\ iteration' = iteration
            /\ pc' = IF pass.break THEN "final" ELSE "loop"
    /\ UNCHANGED << input, requirements, selectedIngredients, result >>
    /\ UNCHANGED outside

\* One pass of while (iteration < maxIterations).
Iterate ==
    /\ pc = "loop"
    /\ iteration < maxIterations
    /\ \E pass \in {loopBody(solution, selectedIngredients, requirements)} :
            /\ solution' = pass.solution
            /\ iteration' = IF pass.break THEN iteration ELSE iteration + 1
            /\ pc' = IF pass.break THEN "final" ELSE "loop"
    /\ UNCHANGED << input, requirements, selectedIngredients, result >>
    /\ UNCHANGED outside

\* The loop condition fails.
LoopExit ==
    /\ pc = "loop"
    /\ ~(iteration < maxIterations)
    /\ pc' = "final"
    /\ UNCHANGED << input, requirements, selectedIngredients, solution, iteration, result >>
    /\ UNCHANGED outside

\* Finalization and return; optimizedAt is new Date(), what the clock reads.
Return ==
    /\ pc = "final"
    /\ \E r \in {ration(input, solution, selectedIngredients)} :
            \E t \in Times : result' = r @@ [optimizedAt |-> t]
    /\ pc' = "returned"
    /\ UNCHANGED << input, requirements, selectedIngredients, solution, iteration >>
    /\ UNCHANGED outside

Next == Throw \/ Start \/ Iterate \/ LoopExit \/ Return

Spec == Init /\ [][Next]_vars

FairSpec == Spec /\ WF_vars(Next)

(***************************************************************************)
(* A process that calls the solver several times.  The locals of a call    *)
(* that has ended are dead: the next call assigns every one of them before *)
(* it reads it.                                                            *)
(***************************************************************************)
CallsInit == Init /\ input \in CallRequests

\* The call has ended (return or throw); the process calls again.
Again ==
    /\ pc \in {"returned", "thrown"}
    /\ Len(earlier) < MaxCalls - 1
    /\ earlier' = Append(earlier, [input |-> input, pc |-> pc, result |-> result])
    /\ input' \in CallRequests
    /\ pc' = "start"
    /\ result' = NoRation
    /\ UNCHANGED << requirements, selectedIngredients, solution, iteration >>
    /\ UNCHANGED << ingredientRecords, feedRations, caller, response >>

CallsNext == Throw \/ Start \/ Iterate \/ LoopExit \/ Return \/ Again

CallsSpec == CallsInit /\ [][CallsNext]_vars

(***************************************************************************)
(* One call of the solver for each targetAnimal.                           *)
(***************************************************************************)
SpeciesInit ==
    /\ input \in SpeciesRequests
    /\ pc = "start"
    /\ requirements = NoNutrition
    /\ selectedIngredients = << >>
    /\ solution = << >>
    /\ iteration = 0
    /\ result = NoRation
    /\ earlier = << >>
    /\ ingredientRecords = [id \in RecordIds |-> NoRecord]
    /\ feedRations = << >>
    /\ caller = NoUser
    /\ response = NoResponse

SpeciesSpec == SpeciesInit /\ [][Next]_vars

(***************************************************************************)
(* The nutrition router and askRag.  A procedure runs from its request to  *)
(* its answer in one step, but for optimizeFeed, whose call of the solver  *)
(* is the steps of the call above; the solver is synchronous, so no other  *)
(* procedure runs until the ration is saved (pc is "idle" between          *)
(* requests).  FeedOptimizationInputSchema has refused a request without   *)
(* ingredients before the procedure runs.                                  *)
(***************************************************************************)
solverVars == << input, pc, requirements, selectedIngredients, solution, iteration, result >>

RouterInit ==
    /\ input = NoRequest
    /\ pc = "idle"
    /\ requirements = NoNutrition
    /\ selectedIngredients = << >>
    /\ solution = << >>
    /\ iteration = 0
    /\ result = NoRation
    /\ earlier = << >>
    /\ ingredientRecords = [id \in RecordIds |-> NoRecord]
    /\ feedRations = << >>
    /\ caller = NoUser
    /\ response = NoResponse

\* createIngredient: a new document (doc() names one the collection does not
\* hold) owned by the caller.
createIngredient(u, unitPrice) ==
    /\ pc = "idle"
    /\ \E id \in RecordIds :
            /\ ~ingredientRecords[id].exists
            /\ ingredientRecords' = [ingredientRecords EXCEPT ![id] = Record(u, unitPrice)]
            /\ response' = Response("createIngredient", u, unitPrice, "OK", id)
    /\ UNCHANGED << solverVars, earlier, feedRations, caller >>

\* updateIngredient without the comparison of userId with ctx.userId.
updateIngredient_NoOwnerCheck(u, id, unitPrice) ==
    /\ pc = "idle"
    /\ IF ~ingredientRecords[id].exists
       THEN /\ response' = Response("updateIngredient", u, id, "NOT_FOUND", NoBody)
            /\ UNCHANGED ingredientRecords
       ELSE /\ ingredientRecords' =
                    [ingredientRecords EXCEPT ![id].unitPrice =
                        IF unitPrice = undefined THEN @ ELSE unitPrice]
            /\ response' = Response("updateIngredient", u, id, "OK", NoBody)
    /\ UNCHANGED << solverVars, earlier, feedRations, caller >>

\* updateIngredient: { id, ...updateData } = input; updateData has no userId
\* (UpdateIngredientInputSchema omits it) and may have no unitPrice.
updateIngredient(u, id, unitPrice) ==
    /\ pc = "idle"
    /\ IF ~ingredientRecords[id].exists
       THEN /\ response' = Response("updateIngredient", u, id, "NOT_FOUND", NoBody)
            /\ UNCHANGED ingredientRecords
       ELSE IF ingredientRecords[id].userId # u
       THEN /\ response' = Response("updateIngredient", u, id, "FORBIDDEN", NoBody)
            /\ UNCHANGED ingredientRecords
       ELSE /\ ingredientRecords' =
                    [ingredientRecords EXCEPT ![id].unitPrice =
                        IF unitPrice = undefined THEN @ ELSE unitPrice]
            /\ response' = Response("updateIngredient", u, id, "OK", NoBody)
    /\ UNCHANGED << solverVars, earlier, feedRations, caller >>

deleteIngredient(u, id) ==
    /\ pc = "idle"
    /\ IF ~ingredientRecords[id].exists
       THEN /\ response' = Response("deleteIngredient", u, id, "NOT_FOUND", NoBody)
            /\ UNCHANGED ingredientRecords
       ELSE IF ingredientRecords[id].userId # u
       THEN /\ response' = Response("deleteIngredient", u, id, "FORBIDDEN", NoBody)
            /\ UNCHANGED ingredientRecords
       ELSE /\ ingredientRecords' = [ingredientRecords EXCEPT ![id] = NoRecord]
            /\ response' = Response("deleteIngredient", u, id, "OK", NoBody)
    /\ UNCHANGED << solverVars, earlier, feedRations, caller >>

\* input.ingredients.map((ing) => ing.id)
ingredientIdsOf(request) == [i \in 1..Len(request.ingredients) |-> request.ingredients[i].id]

\* The documents of where('userId', '==', userId).where('__name__', 'in', ids).
snapshot_AnyOwner(records, userId, ids) ==
    {id \in RecordIds : records[id].exists /\ \E i \in 1..Len(ids) : ids[i] = id}

snapshot(records, userId, ids) ==
    {id \in RecordIds :
        /\ records[id].exists
        /\ records[id].userId = userId
        /\ \E i \in 1..Len(ids) : ids[i] = id}

\* optimizeFeed up to its call of the solver (no answer yet: code "").
optimizeFeed(u, request) ==
    /\ pc = "idle"
    /\ Len(feedRations) < MaxRations
    /\ IF Cardinality(snapshot(ingredientRecords, u, ingredientIdsOf(request)))
            # Len(ingredientIdsOf(request))
       THEN /\ response' = Response("optimizeFeed", u, request, "BAD_REQUEST", NoBody)
            /\ UNCHANGED << input, pc, caller >>
       ELSE /\ input' = request
            /\ pc' = "start"
            /\ caller' = u
            /\ response' = Response("optimizeFeed", u, request, "", NoBody)
    /\ UNCHANGED << requirements, selectedIngredients, solution, iteration, result >>
    /\ UNCHANGED << earlier, ingredientRecords, feedRations >>

\* { ...solution, id: rationRef.id, createdAt: now, updatedAt: now } with
\* solution.userId = ctx.userId.
savedRation(solved, userId, id, now) ==
    solved @@ [userId |-> userId, id |-> id, createdAt |-> now, updatedAt |-> now]

\* What .output(FeedRationSchema) asks of the components.
conformsToFeedRationSchema(saved) ==
    /\ Len(saved.components) >= 1
    /\ \A i \in 1..Len(saved.components) :
            /\ saved.components[i].percentage >= 0
            /\ saved.components[i].percentage <= Hundred
            /\ saved.components[i].cost >= 0
    /\ saved.totalCost >= 0
    /\ saved.userId # NoUser

\* optimizeFeed from the return of the solver: the ration is written, then
\* returned through the output schema; the call's frame is gone.
SaveRation ==
    /\ pc = "returned"
    /\ caller # NoUser
    /\ \E now \in Times :
        \E saved \in {savedRation(result, caller, Len(feedRations) + 1, now)} :
            /\ feedRations' = Append(feedRations, saved)
            /\ response' =
                    Response("optimizeFeed", caller, input,
                             IF conformsToFeedRationSchema(saved)
                             THEN "OK" ELSE "INTERNAL_SERVER_ERROR",
                             saved.id)
    /\ pc' = "idle"
    /\ caller' = NoUser
    /\ input' = NoRequest
    /\ requirements' = NoNutrition
    /\ selectedIngredients' = << >>
    /\ solution' = << >>
    /\ iteration' = 0
    /\ result' = NoRation
    /\ UNCHANGED << earlier, ingredientRecords >>

\* The answer askRag gives when it does not pass the service's on.
fallbackAnswer ==
    "I cannot find a confident answer in my knowledge base. It is best to consult a certified veterinarian."

\* !ragResult || (ragResult.confidence && ragResult.confidence < 0.5)
lowConfidence(ragResult) ==
    \/ ragResult.outcome = "null"
    \/ /\ ragResult.confidence # undefined
       /\ ragResult.confidence # 0
       /\ ragResult.confidence < 50

\* What askRag returns for a result of the service.
askRagBody(ragResult) ==
    IF lowConfidence(ragResult)
    THEN [answer |-> fallbackAnswer,
          sources |-> << >>,
          confidence |-> IF ragResult.outcome = "null" THEN 0
                         ELSE orZero(ragResult.confidence)]
    ELSE [answer |-> ragResult.answer,
          sources |-> IF ragResult.hasSources THEN << "source" >> ELSE << >>,
          confidence |-> ragResult.confidence]

\* askRag, a public procedure (userId is ctx.userId || 'anonymous'); the
\* upload of an image, which changes nothing the answer depends on, is left
\* out.
askRag(u, ragResult) ==
    /\ pc = "idle"
    /\ response' =
            IF ragResult.outcome = "thrown"
            THEN Response("askRag", u, ragResult, "INTERNAL_SERVER_ERROR", NoBody)
            ELSE Response("askRag", u, ragResult, "OK", askRagBody(ragResult))
    /\ UNCHANGED << solverVars, earlier, ingredientRecords, feedRations, caller >>

CreateIngredient == \E u \in Users, unitPrice \in {10, 20} : createIngredient(u, unitPrice)

UpdateIngredient ==
    \E u \in Users, id \in RecordIds, unitPrice \in {undefined, 10, 20} :
        updateIngredient(u, id, unitPrice)

DeleteIngredient == \E u \in Users, id \in RecordIds : deleteIngredient(u, id)

OptimizeFeed == \E u \in Users, request \in RouterRequests : optimizeFeed(u, request)

AskRag == \E ragResult \in RagOutcomes : askRag("anonymous", ragResult)

RouterNext ==
    \/ CreateIngredient
    \/ UpdateIngredient
    \/ DeleteIngredient
    \/ OptimizeFeed
    \/ Start
    \/ Iterate
    \/ LoopExit
    \/ Return
    \/ SaveRation
    \/ AskRag

RouterSpec == RouterInit /\ [][RouterNext]_vars

(***************************************************************************)
(* Properties of the returned ration.                                      *)
(***************************************************************************)
Abs(x) == IF x < 0 THEN 0 - x ELSE x

Returned == pc = "returned"

resultComponents == result.components

\* The ingredient of the request a component names.
ingredientOf(c) == input.ingredients[c.ingredientId]

percentageSum == Sum([i \in 1..Len(resultComponents) |-> resultComponents[i].percentage])

\* The rounding a rescaled percentage can carry: half a unit of its own and
\* half a unit for each entry of the total it was divided by.
Slack == Len(selectedIngredients) + 1

\* C1: for every request with at least one ingredient, the percentages of
\* the returned components sum to 100 within 0.1.
C1_PercentagesSumTo100 ==
    Returned => Abs(percentageSum - Hundred) <= Scale \div 10

\* C2: for every returned component, amount is the returned percentage / 100
\* x totalAmount (to within the rounding of the rescaled percentage) and cost
\* is amount x the unitPrice of its ingredient, also when another pool
\* ingredient was dropped at finalization.
C2_AmountAndCostFollowPercentage ==
    Returned =>
        \A i \in 1..Len(resultComponents) :
            LET c == resultComponents[i]
            IN  /\ Abs(c.amount - c.percentage * input.totalAmount)
                        <= Slack * input.totalAmount
                /\ c.cost = c.amount * ingredientOf(c).unitPrice

\* C3: a request with exactly one ingredient returns exactly one component,
\* at 100 %, with amount totalAmount and totalCost totalAmount x unitPrice.
C3_SingleIngredientAtHundred ==
    (Returned /\ Len(input.ingredients) = 1) =>
        /\ Len(resultComponents) = 1
        /\ resultComponents[1].percentage = Hundred
        /\ resultComponents[1].amount = Hundred * input.totalAmount
        /\ result.totalCost
                = Hundred * input.totalAmount * input.ingredients[1].unitPrice

\* The allocations of a pool in steps of ten percentage points.
AllocationStep == 10 * Scale

Allocations(n) ==
    {a \in [1..n -> {k * AllocationStep : k \in 0..10}] :
        Sum(a) = Hundred}

blendOf(allocation, selected) ==
    calculateNutritionalComposition(
        [i \in 1..Len(selected) |->
            [percentage |-> allocation[i],
             nutritionalValues |-> selected[i].nutritionalValues]])

\* The allocation as a solution of the pool.
asSolution(allocation, selected) ==
    [i \in 1..Len(selected) |-> [id |-> selected[i].id, percentage |-> allocation[i]]]

\* Some allocation that keeps every ingredient within its own constraints
\* meets every floor.
floorsReachable ==
    \E a \in Allocations(Len(selectedIngredients)) :
        /\ withinConstraints(asSolution(a, selectedIngredients), selectedIngredients)
        /\ meetsNutritionalRequirements(blendOf(a, selectedIngredients), requirements)

\* Every floor is met by the returned profile, a value up to 0.5 below its
\* floor accepted.
floorsMetByResult ==
    \A k \in CheckedNutrients :
        requirements[k] # undefined =>
            orZero(result.nutritionalValues[k]) >= AsBlend(requirements[k] - 5)

\* C4: whenever some allocation of the pool meets every floor, the returned
\* profile meets every floor (to within 0.5).  Stated for the allocations
\* that also respect the constraints of the ingredients, in steps of ten
\* points: a part of what the claim covers.
C4_ReachableFloorsAreMet ==
    (Returned /\ floorsReachable) => floorsMetByResult

\* Some allocation keeps every pool ingredient within its constraints.
constraintsSatisfiable ==
    \E a \in Allocations(Len(selectedIngredients)) :
        withinConstraints(asSolution(a, selectedIngredients), selectedIngredients)

\* C5: every returned component whose ingredient has a minPercentage and/or a
\* maxPercentage (min <= max) has a percentage within them.  Stated for the
\* pools whose constraints can all be kept at once: a part of what the claim
\* covers.
C5_ConstraintsRespected ==
    (Returned /\ constraintsSatisfiable) =>
        \A i \in 1..Len(resultComponents) :
            LET c == resultComponents[i]
                constraints == ingredientOf(c).constraints
                lo == constraints.minPercentage
                hi == constraints.maxPercentage
            IN  ~(lo # undefined /\ hi # undefined /\ lo > hi) =>
                    /\ lo # undefined => c.percentage >= lo
                    /\ hi # undefined => c.percentage <= hi

(***************************************************************************)
(* Termination and errors.                                                 *)
(***************************************************************************)
Thrown == pc = "thrown"

\* C6: for every request with at least one ingredient the loop runs at most
\* 100 iterations and solve then returns a ration.
C6_ReturnsWithin100Iterations ==
    /\ [](iteration <= maxIterations)
    /\ (pc = "start" /\ Len(input.ingredients) > 0) ~> Returned

\* Some floor is above what every pool ingredient offers, so above every
\* blend of the pool.
floorBeyondPool ==
    \E k \in CheckedNutrients :
        /\ requirements[k] # undefined
        /\ \A i \in 1..Len(selectedIngredients) :
                \/ selectedIngredients[i].nutritionalValues[k] = undefined
                \/ selectedIngredients[i].nutritionalValues[k] < requirements[k]

\* The cap is what ended the loop: 100 passes ran, under a floor that no
\* blend of the pool reaches, and a ration came back.
C6_Witness ==
    /\ Returned
    /\ iteration = maxIterations
    /\ floorBeyondPool
    /\ Len(resultComponents) > 0

\* C7: an empty ingredient list makes solve raise its error before any
\* allocation is computed, and no ration is returned.
C7_EmptyListThrows ==
    Len(input.ingredients) = 0 =>
        /\ pc = "start" \/ Thrown
        /\ pc = "start" => ENABLED Throw
        /\ selectedIngredients = << >>
        /\ solution = << >>
        /\ result = NoRation

C7_Witness == Thrown /\ Len(input.ingredients) = 0 /\ result = NoRation

\* C8: the empty ingredient list is the only input for which solve raises:
\* with at least one ingredient every step of the call is defined and leads
\* on to the return.
C8_OnlyEmptyListThrows ==
    /\ Thrown => Len(input.ingredients) = 0
    /\ (Len(input.ingredients) > 0 /\ ~Returned) =>
            ENABLED (Start \/ Iterate \/ LoopExit \/ Return)

\* A ration returned for a free ingredient used twice, each with
\* minPercentage 60 above maxPercentage 40 (the minima sum to 120), under
\* floors that cannot be reached.
C8_Witness ==
    /\ Returned
    /\ Len(input.ingredients) = 2
    /\ \A i \in 1..2 :
        /\ input.ingredients[i].unitPrice = 0
        /\ input.ingredients[i].constraints.minPercentage
                > input.ingredients[i].constraints.maxPercentage
    /\ input.ingredients[1].constraints.minPercentage
            + input.ingredients[2].constraints.minPercentage > Hundred
    /\ floorBeyondPool
    /\ Len(resultComponents) > 0

(***************************************************************************)
(* The pool.                                                               *)
(***************************************************************************)
\* The ingredients before ingredient i in ascending price, ties in input order.
cheaperThan(i) ==
    {j \in 1..Len(input.ingredients) :
        \/ input.ingredients[j].unitPrice < input.ingredients[i].unitPrice
        \/ /\ input.ingredients[j].unitPrice = input.ingredients[i].unitPrice
           /\ j < i}

\* The ids of the n cheapest ingredients of the request.
cheapest(n) ==
    {input.ingredients[i].id : i \in {k \in 1..Len(input.ingredients) :
                                        Cardinality(cheaperThan(k)) < n}}

capped ==
    /\ input.maxIngredients # undefined
    /\ Len(input.ingredients) > input.maxIngredients

\* C9: with maxIngredients = N and M > N ingredients, the result has at most
\* N components and each is one of the N cheapest ingredients (ascending
\* unitPrice, ties in input order).
C9_OnlyTheCheapestN ==
    (Returned /\ capped) =>
        /\ Len(resultComponents) <= input.maxIngredients
        /\ \A i \in 1..Len(resultComponents) :
                resultComponents[i].ingredientId \in cheapest(input.maxIngredients)

\* Three ingredients capped at two, the second place tied in price between
\* two of them, and both pool ingredients returned.
C9_Witness ==
    /\ Returned
    /\ capped
    /\ Len(input.ingredients) = 3
    /\ input.maxIngredients = 2
    /\ input.ingredients[2].unitPrice = input.ingredients[3].unitPrice
    /\ input.ingredients[1].unitPrice < input.ingredients[2].unitPrice
    /\ Len(resultComponents) = 2

(***************************************************************************)
(* The total cost.                                                         *)
(***************************************************************************)
RECURSIVE costOfFirst(_)
costOfFirst(n) == IF n = 0 THEN 0 ELSE costOfFirst(n - 1) + resultComponents[n].cost

\* C10: totalCost is the sum of the cost fields of the returned components.
C10_TotalCostIsSumOfCosts ==
    Returned => result.totalCost = costOfFirst(Len(resultComponents))

\* Two components returned at a cost, a third pool ingredient dropped with a
\* percentage above zero.
C10_Witness ==
    /\ Returned
    /\ Len(resultComponents) = 2
    /\ result.totalCost > 0
    /\ \E i \in 1..Len(solution) :
            solution[i].percentage > 0 /\ solution[i].percentage <= nearZero

(***************************************************************************)
(* Cost bounds.                                                            *)
(***************************************************************************)
poolPrices == {selectedIngredients[i].unitPrice : i \in 1..Len(selectedIngredients)}

lowestPrice == CHOOSE p \in poolPrices : \A q \in poolPrices : p <= q

highestPrice == CHOOSE p \in poolPrices : \A q \in poolPrices : p >= q

\* C11: for every request with at least one ingredient, totalCost lies
\* between totalAmount x the lowest unitPrice of the pool and totalAmount x
\* the highest, both inclusive (up to the rounding of the percentages).
C11_TotalCostWithinPriceBounds ==
    (Returned /\ Len(input.ingredients) > 0) =>
        /\ result.totalCost >= (Hundred - Slack) * input.totalAmount * lowestPrice
        /\ result.totalCost <= (Hundred + Slack) * input.totalAmount * highestPrice

(***************************************************************************)
(* Two ingredients that differ only in price.                              *)
(***************************************************************************)
\* The returned percentage of the ingredient with this id, 0 when it is not
\* among the components.
returnedPercentage(id) ==
    IF \E i \in 1..Len(resultComponents) : resultComponents[i].ingredientId = id
    THEN LET i == CHOOSE i \in 1..Len(resultComponents) :
                        resultComponents[i].ingredientId = id
         IN  resultComponents[i].percentage
    ELSE 0

\* Pool positions a, b: the same nutrient profile and constraints, a cheaper.
differOnlyInPrice(a, b) ==
    /\ selectedIngredients[a].nutritionalValues = selectedIngredients[b].nutritionalValues
    /\ selectedIngredients[a].constraints = selectedIngredients[b].constraints
    /\ selectedIngredients[a].unitPrice < selectedIngredients[b].unitPrice

floorsMetByBlend ==
    meetsNutritionalRequirements(
        compositionOfSolution(solution, selectedIngredients), requirements)

\* C12: when two pool ingredients have the same nutrient profile and the same
\* constraints and differ only in unitPrice, and the blend leaves no floor
\* unmet, the returned percentage of the cheaper one is at least that of the
\* more expensive one.
C12_CheaperAtLeastAsMuch ==
    (Returned /\ floorsMetByBlend) =>
        \A a, b \in 1..Len(selectedIngredients) :
            differOnlyInPrice(a, b) =>
                returnedPercentage(selectedIngredients[a].id)
                    >= returnedPercentage(selectedIngredients[b].id)

C12_Witness ==
    /\ Returned
    /\ floorsMetByBlend
    /\ Len(selectedIngredients) = 3
    /\ \E a, b \in 1..Len(selectedIngredients) :
            /\ differOnlyInPrice(a, b)
            /\ returnedPercentage(selectedIngredients[a].id) > 0
            /\ returnedPercentage(selectedIngredients[b].id) > 0

(***************************************************************************)
(* The same request twice.                                                 *)
(***************************************************************************)
\* The fields of a ration other than optimizedAt.
withoutTime(r) == [k \in DOMAIN r \ {"optimizedAt"} |-> r[k]]

\* The earlier calls with the request of this one that returned.
sameRequestBefore ==
    {k \in 1..Len(earlier) : earlier[k].input = input /\ earlier[k].pc = "returned"}

C14_RequestNotMutated == [][input' = input]_vars

\* A call has returned whose list was not in price order, with a
\* targetNutrition of its own and a pool cut to fewer ingredients.
C14_Witness ==
    /\ Returned
    /\ input.ingredients # sortedIngredients(input.ingredients)
    /\ input.hasTargetNutrition
    /\ input.targetNutrition # NoNutrition
    /\ Len(selectedIngredients) < Len(input.ingredients)
    /\ iteration > 0

(***************************************************************************)
(* The routers.                                                            *)
(***************************************************************************)
\* The document with this id exists and belongs to u.
ownedBy(u, id) == ingredientRecords[id].exists /\ ingredientRecords[id].userId = u

C16_OnlyOwnerChangesRecord ==
    [][/\ \A id \in RecordIds :
            (ingredientRecords[id].exists /\ ingredientRecords'[id] # ingredientRecords[id])
                => /\ response'.userId = ingredientRecords[id].userId
                   /\ ingredientRecords'[id].exists
                        => ingredientRecords'[id].userId = ingredientRecords[id].userId
       /\ \A u \in Users, id \in RecordIds :
            (/\ ingredientRecords[id].exists
             /\ ingredientRecords[id].userId # u
             /\ \/ deleteIngredient(u, id)
                \/ \E unitPrice \in {undefined, 10, 20} : updateIngredient(u, id, unitPrice))
                => /\ response'.code = "FORBIDDEN"
                   /\ UNCHANGED ingredientRecords]_vars

\* An update of somebody else's document was refused, and the owner's own
\* update of the other document went through before.
C16_Witness ==
    /\ response.procedure = "updateIngredient"
    /\ response.code = "FORBIDDEN"
    /\ ingredientRecords[response.request].exists
    /\ ingredientRecords[response.request].userId # response.userId
    /\ \E id \in RecordIds :
            /\ ownedBy(response.userId, id)
            /\ ingredientRecords[id].unitPrice # ingredientRecords[response.request].unitPrice

\* The service returned null, or a result with a confidence below 0.5.
mustFallBack(ragResult) ==
    \/ ragResult.outcome = "null"
    \/ /\ ragResult.outcome = "result"
       /\ ragResult.confidence # undefined
       /\ ragResult.confidence < 50

\* C17: askRag returns the fixed fallback answer with no sources whenever the
\* service returns null or a result with a confidence below 0.5, 0 included,
\* and the service's own answer only when the confidence is at least 0.5 or
\* absent.
C17_LowConfidenceFallsBack ==
    (response.procedure = "askRag" /\ response.code = "OK") =>
        /\ mustFallBack(response.request)
            => /\ response.body.answer = fallbackAnswer
               /\ response.body.sources = << >>
        /\ ~mustFallBack(response.request)
            => response.body.answer = response.request.answer

(***************************************************************************)
(* The steps of the loop.                                                  *)
(***************************************************************************)
\* Moving min(5, 10 %) of position i to position j is a cost-improving shift
\* that keeps every constraint and every floor.
validShift(i, j) ==
    /\ i # j
    /\ selectedIngredients[j].unitPrice < selectedIngredients[i].unitPrice
    /\ substitution(solution[i].percentage) > 0
    /\ withinConstraints(shifted(solution, i, j), selectedIngredients)
    /\ meetsNutritionalRequirements(
            compositionOfSolution(shifted(solution, i, j), selectedIngredients),
            requirements)

\* The loop has ended before its 100th pass with every floor met: it left
\* through the requirements-satisfied branch.
leftSatisfiedBranch ==
    /\ pc = "final"
    /\ iteration < maxIterations
    /\ floorsMetByBlend

\* C18: the loop leaves the requirements-satisfied branch only at a fixed
\* point of the substitution search: no pair (i, j) of pool ingredients with
\* price[j] < price[i] has a shift of min(5, percentage[i] x 0.1) points from
\* i to j that violates no constraint and keeps every floor met.
C18_LeavesOnlyAtFixedPoint ==
    leftSatisfiedBranch =>
        \A i, j \in 1..Len(solution) : ~validShift(i, j)

\* The adjustments array of the pass that starts in this state.
adjustmentsNow ==
    adjustmentsOf(solution, selectedIngredients,
                  compositionOfSolution(solution, selectedIngredients), requirements)

\* The pass that starts in this state is a bump step.
bumpStep ==
    /\ pc = "loop"
    /\ iteration < maxIterations
    /\ ~floorsMetByBlend
    /\ Len(adjustmentsNow) > 0

\* The positions that get no bump in this pass.
nonBumped == {i \in 1..Len(solution) : ~isBumped(adjustmentsNow, i)}

\* C19: in a bump step with total bump T and k ingredients without a bump,
\* the percentage of every ingredient without a bump is, before the
\* normalization, max(0, old percentage - T / k), also when one ingredient
\* is bumped for protein and for energy in the same step.
C19_ReductionIsTotalOverNonBumped ==
    bumpStep =>
        \A i \in nonBumped :
            adjusted(solution, adjustmentsNow)[i].percentage
                = Max(0, solution[i].percentage
                            - RoundDiv(totalAdjustmentOf(adjustmentsNow),
                                       Cardinality(nonBumped)))

\* The pass that starts in this state finds some floor unmet.
unmetPass ==
    /\ pc = "loop"
    /\ iteration < maxIterations
    /\ ~floorsMetByBlend

\* The floor of nutrient k is given and the blend is below it.
floorUnmet(composition, k) ==
    /\ requirements[k] # undefined
    /\ orZero(composition[k]) < AsBlend(requirements[k])

\* The value of nutrient k of pool position i is above the blend's.
aboveBlend(composition, i, k) ==
    /\ selectedIngredients[i].nutritionalValues[k] # undefined
    /\ AsBlend(selectedIngredients[i].nutritionalValues[k]) > orZero(composition[k])

\* Position i has an entry of this size among the adjustments.
marked(adjustments, i, bump) ==
    \E a \in 1..Len(adjustments) :
        adjustments[a].ingredientIdx = i /\ adjustments[a].adjustment = bump

\* The marks are those of the protein and of the energy floor, and no other.
marksAreExact(composition, adjustments) ==
    /\ \A i \in 1..Len(solution) :
            /\ marked(adjustments, i, proteinBump)
                <=> (floorUnmet(composition, "protein") /\ aboveBlend(composition, i, "protein"))
            /\ marked(adjustments, i, energyBump)
                <=> (floorUnmet(composition, "energy") /\ aboveBlend(composition, i, "energy"))
    /\ \A a \in 1..Len(adjustments) :
            adjustments[a].adjustment \in {proteinBump, energyBump}

\* C20: in a pass that finds some floor unmet, an ingredient is marked for
\* +2 exactly when the protein floor is unmet and its protein value is above
\* the blend's, and for +1.5 exactly when the energy floor is unmet and its
\* energy value is above the blend's; no other floor marks anything; when
\* nothing is marked the loop ends in that pass with every percentage as it
\* was.
C20_BumpsForProteinAndEnergyOnly ==
    [][unmetPass =>
        /\ Bind(LAMBDA composition :
                    Bind(LAMBDA adjustments : marksAreExact(composition, adjustments),
                         adjustmentsOf(solution, selectedIngredients, composition,
                                       requirements)),
                compositionOfSolution(solution, selectedIngredients))
        /\ Len(adjustmentsNow) = 0
            => (pc' = "final" /\ solution' = solution /\ iteration' = iteration)]_vars

\* After a bump step the protein and the energy floor are both unmet, one
\* ingredient is marked for protein alone and another for energy alone.
C20_Witness ==
    /\ unmetPass
    /\ iteration > 0
    /\ \E i, j \in 1..Len(solution) :
            /\ marked(adjustmentsNow, i, proteinBump)
            /\ ~marked(adjustmentsNow, i, energyBump)
            /\ marked(adjustmentsNow, j, energyBump)
            /\ ~marked(adjustmentsNow, j, proteinBump)

\* The blend the loop is about to test, at the top of an iteration.
blendNow == compositionOfSolution(solution, selectedIngredients)

\* A floor is met in the claim's sense: the blend has a value for the nutrient
\* and that value is at least the floor.
hasValueAtLeast(composition, k) ==
    /\ composition[k] # undefined
    /\ composition[k] >= AsBlend(requirements[k])

\* C21: the floor check passes exactly when every required nutrient has a blend
\* value that is at least its floor; a floor for a nutrient the blend has no
\* value for counts as not met, whatever the floor, 0 included.
C21_MissingValueFailsFloor ==
    (pc = "loop" /\ iteration < maxIterations) =>
        \E composition \in {blendNow} :
            meetsNutritionalRequirements(composition, requirements)
                <=> \A k \in CheckedNutrients :
                        requirements[k] # undefined
                            => hasValueAtLeast(composition, k)

(***************************************************************************)
(* The nutrient profile of the returned ration.                            *)
(***************************************************************************)
\* The percentage-weighted blend of the returned components.
returnedBlend ==
    calculateNutritionalComposition(
        [i \in 1..Len(resultComponents) |->
            [percentage |-> resultComponents[i].percentage,
             nutritionalValues |-> ingredientOf(resultComponents[i]).nutritionalValues]])

\* The rounding the blend value of k can carry: Slack units of percentage for
\* each returned component that defines k.
blendSlack(k) ==
    Slack * Sum([i \in 1..Len(resultComponents) |->
                    orZero(ingredientOf(resultComponents[i]).nutritionalValues[k])])

\* C22: the nutrient profile of the returned ration is the blend of the
\* returned components: a key is present iff some returned component's
\* ingredient defines it, and its value is the sum over those components of
\* returned percentage / 100 times the ingredient's value.
C22_ProfileIsBlendOfReturned ==
    Returned =>
        \E blend \in {returnedBlend} :
            \A k \in Nutrients :
                /\ result.nutritionalValues[k] = undefined <=> blend[k] = undefined
                /\ blend[k] # undefined =>
                    Abs(result.nutritionalValues[k] - blend[k]) <= blendSlack(k)

(***************************************************************************)
(* Step 3: the clamp before the first normalization.                       *)
(***************************************************************************)
\* minPercentage <= maxPercentage, or at most one of the two is given.
boundsOrdered(constraints) ==
    (constraints.minPercentage # undefined /\ constraints.maxPercentage # undefined)
        => constraints.minPercentage <= constraints.maxPercentage

\* The percentage lies within the bounds that are given.
withinGivenBounds(percentage, constraints) ==
    /\ constraints.minPercentage # undefined
        => percentage >= constraints.minPercentage
    /\ constraints.maxPercentage # undefined
        => percentage <= constraints.maxPercentage

\* The step that runs step 3.
initialAllocationStep == pc = "start" /\ pc' = "loop"

\* C23: the array that step 3 renormalizes holds, for every pool ingredient
\* with ordered bounds, a percentage within the bounds given, and for every
\* ingredient without a constraint the equal share 100 / pool size.
C23_ClampedBeforeRenormalization ==
    [][initialAllocationStep =>
        \E clamped \in {clampedSolution(selectedIngredients')} :
            /\ solution' = normalize(clamped)
            /\ \A i \in 1..Len(clamped) :
                LET constraints == selectedIngredients'[i].constraints
                IN  /\ boundsOrdered(constraints) =>
                        withinGivenBounds(clamped[i].percentage, constraints)
                    /\ constraints = NoConstraints =>
                        clamped[i].percentage = initialPercentage(selectedIngredients')]_vars

\* Step 3 has run on a pool with an ingredient whose equal share its ordered
\* bounds cut down, next to one without a constraint.
C23_Witness ==
    /\ pc = "loop"
    /\ iteration = 0
    /\ \E i, j \in 1..Len(selectedIngredients) :
        /\ selectedIngredients[i].constraints.maxPercentage # undefined
        /\ boundsOrdered(selectedIngredients[i].constraints)
        /\ initialPercentage(selectedIngredients)
                > selectedIngredients[i].constraints.maxPercentage
        /\ selectedIngredients[j].constraints = NoConstraints

(***************************************************************************)
(* Requirement resolution.                                                 *)
(***************************************************************************)
\* The call is past its first statements.
resolved == pc \in {"loop", "returned"}

\* C24: a supplied targetNutrition alone is the requirement set (no floor when
\* it is empty); without it the floors are the table entry of the species; for
\* a targetAnimal outside the table there is no floor and the call does not
\* throw for it.
C24_RequirementResolution ==
    /\ resolved /\ input.hasTargetNutrition
        => requirements = input.targetNutrition
    /\ resolved /\ ~input.hasTargetNutrition /\ input.targetAnimal \in Species
        => requirements = DEFAULT_NUTRITIONAL_REQUIREMENTS[input.targetAnimal]
    /\ resolved /\ ~input.hasTargetNutrition /\ input.targetAnimal \notin Species
        => requirements = NoNutrition
    /\ pc = "thrown" => Len(input.ingredients) = 0

\* A call for a listed species with a targetNutrition that names fewer
\* nutrients than the table, and a call for the unlisted one, have returned.
C24_Witness ==
    /\ Returned
    /\ \/ /\ input.hasTargetNutrition
          /\ input.targetAnimal = "Pig"
          /\ input.targetNutrition = NV(undefined, undefined, 180)
          /\ Len(resultComponents) = 3
       \/ /\ ~input.hasTargetNutrition
          /\ input.targetAnimal = UnlistedAnimal
          /\ Len(resultComponents) = 3

(***************************************************************************)
(* Near-zero components.                                                   *)
(***************************************************************************)
\* The ingredient is among the returned components.
isReturned(id) ==
    \E i \in 1..Len(resultComponents) : resultComponents[i].ingredientId = id

\* C25: a pool ingredient whose percentage at the end of the loop is 0.01 or
\* less is absent from the result, and every returned component's percentage
\* after the final renormalization is above 0.01.
C25_NoNearZeroComponent ==
    Returned =>
        /\ \A i \in 1..Len(solution) :
            solution[i].percentage <= nearZero => ~isReturned(solution[i].id)
        /\ \A i \in 1..Len(resultComponents) :
            resultComponents[i].percentage > nearZero

\* A ration was returned from a pool in which one ingredient ended the loop
\* above 0 and at most at 0.01.
C25_Witness ==
    /\ Returned
    /\ Len(resultComponents) >= 1
    /\ \E i \in 1..Len(solution) :
        /\ solution[i].percentage > 0
        /\ solution[i].percentage <= nearZero

(***************************************************************************)
(* A step-3 allocation that already meets the floors.                      *)
(***************************************************************************)
\* The step-3 allocation of the pool meets every floor.
initialMeetsFloors ==
    \E initial \in {initialSolution(selectedIngredients)} :
        meetsNutritionalRequirements(
            compositionOfSolution(initial, selectedIngredients), requirements)

\* The pool and the components are what step 3 and the finalization alone
\* give, and the loop was left in its first pass.
untouchedByLoop ==
    \E initial \in {initialSolution(selectedIngredients)} :
        /\ iteration = 0
        /\ solution = initial
        /\ Returned =>
            resultComponents
                = rationComponents(initial, selectedIngredients, input.totalAmount)

allocated == pc \in {"loop", "final", "returned"}

\* The divisor of the reduction in the pass that starts in this state.
divisorNow == Len(solution) - Len(adjustmentsNow)

\* C27: after step 3 and after every bump step each pool percentage is a
\* number at or above 0, whatever the divisor of the reduction was, and every
\* returned component has a percentage above 0 and at most 100, an amount at
\* or above 0 and a cost at or above 0.
C27_PercentagesInRange ==
    /\ allocated =>
        \A i \in 1..Len(solution) : solution[i].percentage >= 0
    /\ Returned =>
        \A i \in 1..Len(resultComponents) :
            /\ resultComponents[i].percentage > 0
            /\ resultComponents[i].percentage <= Hundred
            /\ resultComponents[i].amount >= 0
            /\ resultComponents[i].cost >= 0

\* A bump step has run and the next one divides by a negative number while
\* some ingredient gets no bump.
C27_Witness ==
    /\ bumpStep
    /\ iteration >= 1
    /\ divisorNow < 0
    /\ nonBumped # {}

(***************************************************************************)
(* The sum of the pool percentages.                                        *)
(***************************************************************************)
poolSum == Sum(percentagesOf(solution))

\* The sum of the array step 3 clamped, before its normalization.
clampedSum == Sum(percentagesOf(clampedSolution(selectedIngredients)))

\* C28: at the start of every pass of the loop the pool percentages sum to
\* 100, but for the passes before any bump step when the clamp of step 3 set
\* every ingredient to 0: then they are all 0.  After a bump step the sum is
\* 100.
C28_PoolSumsTo100 ==
    pc = "loop" =>
        IF clampedSum = 0 /\ iteration = 0
        THEN \A i \in 1..Len(solution) : solution[i].percentage = 0
        ELSE Abs(poolSum - Hundred) <= Slack

\* A pass starts after a bump step on a pool whose clamped percentages did
\* not sum to 100.
C28_Witness ==
    /\ pc = "loop"
    /\ iteration >= 1
    /\ Abs(clampedSum - Hundred) > Scale
    /\ Len(solution) >= 2

(***************************************************************************)
(* The ingredients a bump step does not bump.                              *)
(***************************************************************************)
\* C29: in a bump step the percentage of an ingredient without a bump is,
\* before the normalization, at most what it was, for every pool size and
\* every combination of protein and energy bumps.
C29_NonBumpedNeverIncreases ==
    bumpStep =>
        \E after \in {adjusted(solution, adjustmentsNow)} :
            \A i \in nonBumped :
                after[i].percentage <= solution[i].percentage

(***************************************************************************)
(* The rations optimizeFeed stores.                                        *)
(***************************************************************************)
\* The step writes a document to feedRations.
storesRation == feedRations' # feedRations

\* C30: every ration optimizeFeed writes to feedRations satisfies the ration
\* schema, with at least one component and the caller as userId, and the call
\* that writes it returns it: no call stores a ration and then fails.
C30_StoredRationIsValidAndReturned ==
    [][storesRation =>
        \E saved \in {feedRations'[Len(feedRations')]} :
            /\ Len(feedRations') = Len(feedRations) + 1
            /\ conformsToFeedRationSchema(saved)
            /\ Len(saved.components) >= 1
            /\ saved.userId = caller
            /\ response'.code = "OK"
            /\ response'.body = saved.id]_vars

====
